---- MODULE Spec2Model ----
(***************************************************************************)
(* A model of pycobertura's CoberturaMerger (src/pycobertura/merger.py):   *)
(* the fold of N Cobertura report trees into the base tree, followed by    *)
(* the bottom-up recomputation of the rates.                               *)
(*                                                                         *)
(* An XML attribute is an option: <<>> when the attribute is missing,      *)
(* <<text>> when it is present.  The texts the code parses (hits,          *)
(* condition-coverage) are sequences of one-character strings, so that     *)
(* int(), float(), str() and the regular expression are computed as the    *)
(* code computes them.  Names (package name, class filename, source text)  *)
(* are only compared for equality and are plain strings.                   *)
(***************************************************************************)
EXTENDS Integers, Sequences, FiniteSets, TLC

VARIABLES
    filenames,      \* self.filenames: the parsed content of each input file
    base_tree,      \* self.base_tree: the accumulator
    class_map,      \* self._class_map: filename -> <<package index, class index>>
    package_map,    \* self._package_map: package name -> package index
    pc,             \* "merge" | "done" | "raised"
    fi,             \* merge(): index in filenames of the file being folded
    ci,             \* merge(): index of the next class of new_tree
    li,             \* _merge_class(): index of the next line of new_class
    returned        \* what the calls of merge() on this merger returned, in order

vars == <<filenames, base_tree, class_map, package_map, pc, fi, ci, li, returned>>

(***************************************************************************)
(* Bounds                                                                  *)
(***************************************************************************)
MaxFiles == 3
\* The calls of merge() on one merger.
MaxCalls == 2

(***************************************************************************)
(* Options and texts                                                       *)
(***************************************************************************)
None == <<>>
Some(v) == <<v>>
IsNone(o) == o = <<>>
Val(o) == o[1]

Digits == {"0", "1", "2", "3", "4", "5", "6", "7", "8", "9"}

DigitVal(c) ==
    CASE c = "0" -> 0 [] c = "1" -> 1 [] c = "2" -> 2 [] c = "3" -> 3
      [] c = "4" -> 4 [] c = "5" -> 5 [] c = "6" -> 6 [] c = "7" -> 7
      [] c = "8" -> 8 [] c = "9" -> 9

DigitChar(d) == <<"0", "1", "2", "3", "4", "5", "6", "7", "8", "9">>[d + 1]

AllDigits(s) == Len(s) > 0 /\ \A k \in 1..Len(s) : s[k] \in Digits

\* The value of a text of decimal digits.
RECURSIVE DecValue(_)
DecValue(s) ==
    IF Len(s) = 0 THEN 0
    ELSE 10 * DecValue(SubSeq(s, 1, Len(s) - 1)) + DigitVal(s[Len(s)])

\* str(n) for an int n >= 0.
RECURSIVE str(_)
str(n) == IF n < 10 THEN <<DigitChar(n)>> ELSE str(n \div 10) \o <<DigitChar(n % 10)>>

\* int(text) raises ValueError.  Over the texts of the inputs (digits and
\* letters, no sign, blank or underscore) int() accepts the non-empty texts
\* of decimal digits.
IntRaises(s) == ~AllDigits(s)

\* int(el.get("hits", 0)): the default 0 when the attribute is missing.
HitsRaises(o) == ~IsNone(o) /\ IntRaises(Val(o))
HitsInt(o) == IF IsNone(o) THEN 0 ELSE DecValue(Val(o))

\* The index of the first k >= i with s[k] not a digit (Len(s)+1 when none).
RECURSIVE DigitsEnd(_, _)
DigitsEnd(s, i) ==
    IF i <= Len(s) /\ s[i] \in Digits THEN DigitsEnd(s, i + 1) ELSE i

\* The match of \((\d+)/(\d+)\) starting at index i: <<matched, covered, total>>.
MatchAt(s, i) ==
    LET a == i + 1
        b == DigitsEnd(s, a)
        c == b + 1
        d == DigitsEnd(s, c)
    IN  IF /\ i <= Len(s) /\ s[i] = "("
           /\ b > a /\ b <= Len(s) /\ s[b] = "/"
           /\ d > c /\ d <= Len(s) /\ s[d] = ")"
        THEN <<TRUE, DecValue(SubSeq(s, a, b - 1)), DecValue(SubSeq(s, c, d - 1))>>
        ELSE <<FALSE, 0, 0>>

\* re.search: the leftmost match.
RECURSIVE Search(_, _)
Search(s, i) ==
    IF i > Len(s) THEN <<FALSE, 0, 0>>
    ELSE IF MatchAt(s, i)[1] THEN MatchAt(s, i) ELSE Search(s, i + 1)

\* `if not cc_string`: None and the empty text are falsy.
Falsy(o) == IsNone(o) \/ Len(Val(o)) = 0

_parse_condition_coverage(cc_string) ==
    IF Falsy(cc_string) THEN <<0, 0>>
    ELSE LET m == Search(Val(cc_string), 1)
         IN  IF ~m[1] THEN <<0, 0>> ELSE <<m[2], m[3]>>

\* cc_string.split("%", 1)[0]: the text before the first "%", the whole
\* text when it holds none.
RECURSIVE BeforePercent(_)
BeforePercent(s) ==
    IF Len(s) = 0 \/ s[1] = "%" THEN <<>>
    ELSE <<s[1]>> \o BeforePercent(Tail(s))

\* float(text) over the texts of the inputs (digits, letters, blank and
\* punctuation; no sign, point or exponent): a non-empty text of digits is
\* its value, anything else raises ValueError, which the code turns into -1.
_get_coverage_percentage(cc_string) ==
    IF Falsy(cc_string) THEN -1
    ELSE LET t == BeforePercent(Val(cc_string))
         IN  IF AllDigits(t) THEN DecValue(t) ELSE -1

(***************************************************************************)
(* Rates.  covered / total is a float and str() prints it; the model keeps *)
(* the exact quotient as the fraction <<numerator, denominator>> in lowest *)
(* terms, and the int 0 of the else branch as <<0, 1>>.                    *)
(***************************************************************************)
RECURSIVE Gcd(_, _)
Gcd(a, b) == IF b = 0 THEN a ELSE Gcd(b, a % b)

Rate(covered, total) ==
    IF total > 0
    THEN LET g == Gcd(covered, total) IN <<covered \div g, total \div g>>
    ELSE <<0, 1>>

(***************************************************************************)
(* The tree.  A report is [sources, packages, line_rate, branch_rate,      *)
(* timestamp]; sources is an option (the <sources> container may be        *)
(* missing) of a sequence of source texts.  A package is [name, classes,   *)
(* line_rate, branch_rate], a class [filename, lines, line_rate,           *)
(* branch_rate], a line [number, hits, branch, cc, conditions]: branch is  *)
(* get("branch") == "true", cc the condition-coverage attribute,           *)
(* conditions the <conditions> child (an opaque group) when there is one.  *)
(***************************************************************************)
Line(n, h, b, c, g) ==
    [number |-> n, hits |-> h, branch |-> b, cc |-> c, conditions |-> g]

\* new_tree.xpath("./packages//class"): the classes in document order, each
\* as <<package index, class index>>.
RECURSIVE FlatFrom(_, _)
FlatFrom(tree, p) ==
    IF p > Len(tree.packages) THEN <<>>
    ELSE [c \in 1..Len(tree.packages[p].classes) |-> <<p, c>>] \o FlatFrom(tree, p + 1)

FlatClasses(tree) == FlatFrom(tree, 1)

ClassAt(tree, path) == tree.packages[path[1]].classes[path[2]]

MaxOf(S) == CHOOSE m \in S : \A k \in S : k <= m

\* {el.get("filename"): el for el in xpath("./packages//class")}: a later
\* class of the same filename replaces an earlier one.
BuildClassMap(tree) ==
    LET fc == FlatClasses(tree)
        names == {ClassAt(tree, fc[k]).filename : k \in 1..Len(fc)}
    IN  [f \in names |->
            fc[MaxOf({k \in 1..Len(fc) : ClassAt(tree, fc[k]).filename = f})]]

\* {el.get("name"): el for el in xpath("./packages/package")}
BuildPackageMap(tree) ==
    LET names == {tree.packages[p].name : p \in 1..Len(tree.packages)}
    IN  [n \in names |->
            MaxOf({p \in 1..Len(tree.packages) : tree.packages[p].name = n})]

\* d | {k: v}
Put(d, k, v) == [x \in DOMAIN d \cup {k} |-> IF x = k THEN v ELSE d[x]]

(***************************************************************************)
(* _merge_sources                                                          *)
(***************************************************************************)
InSeq(x, s) == \E k \in 1..Len(s) : s[k] = x

\* AppendNew without the membership test of line 76.
RECURSIVE AppendNew_Unchecked(_, _)
AppendNew_Unchecked(base, new) ==
    IF Len(new) = 0 THEN base
    ELSE AppendNew_Unchecked(Append(base, new[1]), Tail(new))

\* The loop over new_sources_el.findall("source"): append what is not yet in
\* existing_sources.
RECURSIVE AppendNew(_, _)
AppendNew(base, new) ==
    IF Len(new) = 0 THEN base
    ELSE AppendNew(IF InSeq(new[1], base) THEN base ELSE Append(base, new[1]),
                   Tail(new))

_merge_sources(tree, new_tree) ==
    LET base_sources == IF IsNone(tree.sources) THEN <<>> ELSE Val(tree.sources)
        new_sources == IF IsNone(new_tree.sources) THEN <<>> ELSE Val(new_tree.sources)
    IN  [tree EXCEPT !.sources = Some(AppendNew(base_sources, new_sources))]

(***************************************************************************)
(* _merge_class: the line loop                                             *)
(***************************************************************************)
\* base_lines_map.get(lineno): the index in the class of the line of that
\* number (the last one, as the dict keeps it), 0 when there is none.
LineIndex(class, lineno) ==
    LET S == {k \in 1..Len(class.lines) : class.lines[k].number = lineno}
    IN  IF S = {} THEN 0 ELSE MaxOf(S)

\* MergeLine with `=` for `+`: the incoming hits replace the base's.
MergeLine_HitsOverwritten(base_line, new_line) ==
    LET summed == [base_line EXCEPT !.hits = Some(str(HitsInt(new_line.hits)))]
    IN  IF ~new_line.branch THEN summed
        ELSE IF _get_coverage_percentage(new_line.cc)
                   > _get_coverage_percentage(base_line.cc)
        THEN [summed EXCEPT
                !.branch = TRUE,
                !.cc = IF Falsy(new_line.cc) THEN base_line.cc ELSE new_line.cc,
                !.conditions = new_line.conditions]
        ELSE [summed EXCEPT !.branch = TRUE]

\* MergeLine with `>=` for `>`: a tie takes the incoming version.
MergeLine_TieTakesIncoming(base_line, new_line) ==
    LET summed == [base_line EXCEPT
                     !.hits = Some(str(HitsInt(base_line.hits) + HitsInt(new_line.hits)))]
    IN  IF ~new_line.branch THEN summed
        ELSE IF _get_coverage_percentage(new_line.cc)
                   >= _get_coverage_percentage(base_line.cc)
        THEN [summed EXCEPT
                !.branch = TRUE,
                !.cc = IF Falsy(new_line.cc) THEN base_line.cc ELSE new_line.cc,
                !.conditions = new_line.conditions]
        ELSE [summed EXCEPT !.branch = TRUE]

\* MergeLine without the comparison: the incoming version always wins.
MergeLine_IncomingAlwaysWins(base_line, new_line) ==
    LET summed == [base_line EXCEPT
                     !.hits = Some(str(HitsInt(base_line.hits) + HitsInt(new_line.hits)))]
    IN  IF ~new_line.branch THEN summed
        ELSE [summed EXCEPT
                !.branch = TRUE,
                !.cc = IF Falsy(new_line.cc) THEN base_line.cc ELSE new_line.cc,
                !.conditions = new_line.conditions]

\* MergeLine copying the incoming branch attribute instead of forcing "true".
MergeLine_BranchCopied(base_line, new_line) ==
    LET summed == [base_line EXCEPT
                     !.hits = Some(str(HitsInt(base_line.hits) + HitsInt(new_line.hits))),
                     !.branch = new_line.branch]
    IN  IF ~new_line.branch THEN summed
        ELSE IF _get_coverage_percentage(new_line.cc)
                   > _get_coverage_percentage(base_line.cc)
        THEN [summed EXCEPT
                !.cc = IF Falsy(new_line.cc) THEN base_line.cc ELSE new_line.cc,
                !.conditions = new_line.conditions]
        ELSE summed

\* The else branch of the line loop, lines 113-138.
MergeLine(base_line, new_line) ==
    LET summed == [base_line EXCEPT
                     !.hits = Some(str(HitsInt(base_line.hits) + HitsInt(new_line.hits)))]
    IN  IF ~new_line.branch THEN summed
        ELSE IF _get_coverage_percentage(new_line.cc)
                   > _get_coverage_percentage(base_line.cc)
        THEN [summed EXCEPT
                !.branch = TRUE,
                !.cc = IF Falsy(new_line.cc) THEN base_line.cc ELSE new_line.cc,
                !.conditions = new_line.conditions]
        ELSE [summed EXCEPT !.branch = TRUE]

\* One iteration of the line loop on the class.
MergeLineIntoClass(class, new_line) ==
    LET k == LineIndex(class, new_line.number)
    IN  IF k = 0
        THEN [class EXCEPT !.lines = Append(@, new_line)]
        ELSE [class EXCEPT !.lines[k] = MergeLine(@, new_line)]

\* InsertClass without line 97: the inserted class is not registered.
InsertClass_NotRegistered(m, package_name, new_class) ==
    LET known == package_name \in DOMAIN m.package_map
        p == IF known THEN m.package_map[package_name] ELSE Len(m.tree.packages) + 1
        created == [name |-> package_name, classes |-> <<>>,
                    line_rate |-> None, branch_rate |-> None]
        pkgs == IF known THEN m.tree.packages ELSE Append(m.tree.packages, created)
    IN  [tree |-> [m.tree EXCEPT
                     !.packages = [pkgs EXCEPT ![p].classes = Append(@, new_class)]],
         class_map |-> m.class_map,
         package_map |-> IF known THEN m.package_map
                         ELSE Put(m.package_map, package_name, p)]

\* Lines 84-98: the class is new to the base; the merger state is
\* [tree, class_map, package_map].
InsertClass(m, package_name, new_class) ==
    LET known == package_name \in DOMAIN m.package_map
        p == IF known THEN m.package_map[package_name] ELSE Len(m.tree.packages) + 1
        created == [name |-> package_name, classes |-> <<>>,
                    line_rate |-> None, branch_rate |-> None]
        pkgs == IF known THEN m.tree.packages ELSE Append(m.tree.packages, created)
        c == Len(pkgs[p].classes) + 1
    IN  [tree |-> [m.tree EXCEPT
                     !.packages = [pkgs EXCEPT ![p].classes = Append(@, new_class)]],
         class_map |-> Put(m.class_map, new_class.filename, <<p, c>>),
         package_map |-> IF known THEN m.package_map
                         ELSE Put(m.package_map, package_name, p)]

(***************************************************************************)
(* _recalculate_all_rates                                                  *)
(***************************************************************************)
\* The loop of _recalculate_class_rates over lines[1..k]:
\* <<covered_lines, total_branches, covered_branches>>.
RECURSIVE LineTotals(_, _)
LineTotals(lines, k) ==
    IF k = 0 THEN <<0, 0, 0>>
    ELSE LET t == LineTotals(lines, k - 1)
             line == lines[k]
             hit == IF HitsInt(line.hits) > 0 THEN 1 ELSE 0
             cc == IF line.branch THEN _parse_condition_coverage(line.cc) ELSE <<0, 0>>
         IN  <<t[1] + hit, t[2] + cc[2], t[3] + cc[1]>>

\* What _recalculate_class_rates returns:
\* <<total_lines, covered_lines, total_branches, covered_branches>>.
ClassTotals(class) ==
    LET t == LineTotals(class.lines, Len(class.lines))
    IN  <<Len(class.lines), t[1], t[2], t[3]>>

\* WithRates with the quotients upside down.
WithRates_Inverted(el, t) ==
    [el EXCEPT !.line_rate = Some(Rate(t[1], t[2])),
               !.branch_rate = Some(Rate(t[3], t[4]))]

WithRates(el, t) ==
    [el EXCEPT !.line_rate = Some(Rate(t[2], t[1])),
               !.branch_rate = Some(Rate(t[4], t[3]))]

_recalculate_class_rates(class) == WithRates(class, ClassTotals(class))

\* The sums of _recalculate_package_rates over classes[1..k].
RECURSIVE SumClassTotals(_, _)
SumClassTotals(classes, k) ==
    IF k = 0 THEN <<0, 0, 0, 0>>
    ELSE LET s == SumClassTotals(classes, k - 1)
             t == ClassTotals(classes[k])
         IN  <<s[1] + t[1], s[2] + t[2], s[3] + t[3], s[4] + t[4]>>

PackageTotals(package) == SumClassTotals(package.classes, Len(package.classes))

\* The mean of the rates <<n, d>> of rates[1..k], as a fraction.
RECURSIVE SumRates(_, _)
SumRates(rates, k) ==
    IF k = 0 THEN <<0, 1>>
    ELSE LET s == SumRates(rates, k - 1)
         IN  Rate(s[1] * rates[k][2] + rates[k][1] * s[2], s[2] * rates[k][2])

MeanRate(rates) ==
    IF Len(rates) = 0 THEN <<0, 1>>
    ELSE LET s == SumRates(rates, Len(rates)) IN Rate(s[1], s[2] * Len(rates))

\* _recalculate_package_rates averaging the rates of its classes.
_recalculate_package_rates_Averaged(package) ==
    LET classes == [c \in 1..Len(package.classes) |->
                      _recalculate_class_rates(package.classes[c])]
    IN  [package EXCEPT
           !.classes = classes,
           !.line_rate = Some(MeanRate([c \in 1..Len(classes) |-> Val(classes[c].line_rate)])),
           !.branch_rate = Some(MeanRate([c \in 1..Len(classes) |-> Val(classes[c].branch_rate)]))]

_recalculate_package_rates(package) ==
    WithRates([package EXCEPT
                 !.classes = [c \in 1..Len(package.classes) |->
                                _recalculate_class_rates(package.classes[c])]],
              PackageTotals(package))

RECURSIVE SumPackageTotals(_, _)
SumPackageTotals(packages, k) ==
    IF k = 0 THEN <<0, 0, 0, 0>>
    ELSE LET s == SumPackageTotals(packages, k - 1)
             t == PackageTotals(packages[k])
         IN  <<s[1] + t[1], s[2] + t[2], s[3] + t[3], s[4] + t[4]>>

_recalculate_all_rates(tree) ==
    WithRates([tree EXCEPT
                 !.packages = [p \in 1..Len(tree.packages) |->
                                 _recalculate_package_rates(tree.packages[p])]],
              SumPackageTotals(tree.packages, Len(tree.packages)))

\* int(line.get("hits", 0)) of line 186 raises ValueError on some line.
ClassRaises(class) == \E k \in 1..Len(class.lines) : HitsRaises(class.lines[k].hits)
PackageRaises(package) == \E c \in 1..Len(package.classes) : ClassRaises(package.classes[c])
TreeRaises(tree) == \E p \in 1..Len(tree.packages) : PackageRaises(tree.packages[p])

MinOf(S) == CHOOSE m \in S : \A k \in S : m <= k

\* The tree the exception leaves: the rates of what was walked before the
\* class that raises are written, nothing else is.
RecalculateUntilRaise(tree) ==
    LET p0 == MinOf({p \in 1..Len(tree.packages) : PackageRaises(tree.packages[p])})
        c0 == MinOf({c \in 1..Len(tree.packages[p0].classes) :
                        ClassRaises(tree.packages[p0].classes[c])})
    IN  [tree EXCEPT !.packages =
            [p \in 1..Len(tree.packages) |->
                IF p < p0 THEN _recalculate_package_rates(tree.packages[p])
                ELSE IF p > p0 THEN tree.packages[p]
                ELSE [tree.packages[p] EXCEPT !.classes =
                        [c \in 1..Len(tree.packages[p].classes) |->
                            IF c < c0
                            THEN _recalculate_class_rates(tree.packages[p].classes[c])
                            ELSE tree.packages[p].classes[c]]]]]

\* int(datetime.now().timestamp()): the clock is not the program's to choose.
Clock == {1700000000, 1700000001}

_update_timestamp(tree, now) == [tree EXCEPT !.timestamp = Some(now)]

(***************************************************************************)
(* The input files.  Every report conforms to the shape of the format: a   *)
(* package name, a class filename, a line number within a class and a      *)
(* source text occur once in a report, and condition-coverage and          *)
(* <conditions> are carried by branch lines only.  The rate attributes of  *)
(* the inputs are stale: they are what the producer wrote.                 *)
(***************************************************************************)
Txt0 == <<"0">>
Txt1 == <<"1">>
Txt2 == <<"2">>
TxtX == <<"x">>
Cc25 == <<"2", "5", "%", " ", "(", "1", "/", "4", ")">>
Cc50 == <<"5", "0", "%", " ", "(", "1", "/", "2", ")">>
Cc50b == <<"5", "0", "%", " ", "(", "2", "/", "4", ")">>
Cc75 == <<"7", "5", "%", " ", "(", "3", "/", "4", ")">>
Cc150 == <<"1", "5", "0", "%", " ", "(", "3", "/", "2", ")">>
CcGarbled == <<"n", "/", "a">>

Stale == Some(<<1, 3>>)

Plain(n, h) == Line(n, h, FALSE, None, None)
Branch(n, h, c, g) == Line(n, h, TRUE, c, g)

Cls(f, lines) ==
    [filename |-> f, lines |-> lines, line_rate |-> Stale, branch_rate |-> Stale]
Pkg(n, classes) ==
    [name |-> n, classes |-> classes, line_rate |-> Stale, branch_rate |-> Stale]
Report(sources, packages) ==
    [sources |-> sources, packages |-> packages, line_rate |-> Stale,
     branch_rate |-> Stale, timestamp |-> Some(12345)]

ReportPool ==
    { Report(None,
             <<Pkg("p", <<Cls("f.py", <<Plain(1, Some(Txt1)), Plain(2, Some(Txt0))>>)>>)>>),
      Report(Some(<<"/src">>),
             <<Pkg("p", <<Cls("f.py", <<Plain(1, Some(Txt1)), Plain(2, Some(Txt1))>>)>>)>>),
      Report(Some(<<"/src", "/test">>),
             <<Pkg("q", <<Cls("f.py", <<Plain(1, None), Plain(3, Some(Txt2))>>)>>)>>),
      Report(Some(<<"/test", "/lib">>),
             <<Pkg("p", <<Cls("g.py", <<Plain(1, Some(Txt0))>>)>>), Pkg("q", <<>>)>>),
      Report(Some(<<>>),
             <<Pkg("p", <<Cls("f.py", <<Branch(1, Some(Txt0), Some(Cc25), Some("A"))>>)>>)>>),
      Report(None,
             <<Pkg("p", <<Cls("f.py", <<Branch(1, Some(Txt1), Some(Cc75), Some("B"))>>),
                          Cls("g.py", <<Branch(1, Some(Txt1), Some(Cc50), Some("C")),
                                        Plain(2, Some(Txt0))>>)>>)>>),
      Report(None,
             <<Pkg("p", <<Cls("f.py", <<Branch(1, Some(Txt1), Some(Cc50b), Some("D"))>>)>>)>>),
      Report(None,
             <<Pkg("p", <<Cls("f.py", <<Branch(1, Some(Txt0), Some(Cc50), Some("E"))>>)>>)>>),
      Report(None,
             <<Pkg("p", <<Cls("f.py", <<Branch(1, Some(Txt1), None, None)>>)>>)>>),
      Report(None,
             <<Pkg("p", <<Cls("f.py", <<Branch(1, Some(Txt1), Some(CcGarbled), Some("F"))>>)>>)>>),
      Report(None,
             <<Pkg("p", <<Cls("f.py", <<Plain(1, Some(TxtX))>>)>>)>>),
      Report(None,
             <<Pkg("q", <<Cls("g.py", <<>>)>>), Pkg("r", <<>>)>>),
      Report(None,
             <<Pkg("p", <<Cls("f.py", <<Branch(1, Some(Txt1), Some(Cc150), Some("G"))>>)>>)>>),
      Report(Some(<<"/lib", "/src">>), <<>>) }

(***************************************************************************)
(* __init__ and merge()                                                    *)
(***************************************************************************)
\* CoberturaMerger(filenames) with a non-empty list, then merge() is called:
\* the loop starts at filenames[1:].
Init ==
    /\ \E n \in 1..MaxFiles : filenames \in [1..n -> ReportPool]
    /\ base_tree = filenames[1]
    /\ class_map = BuildClassMap(filenames[1])
    /\ package_map = BuildPackageMap(filenames[1])
    /\ pc = "merge"
    /\ fi = 2
    /\ ci = 0
    /\ li = 1
    /\ returned = <<>>

new_tree == filenames[fi]
new_classes == FlatClasses(new_tree)
new_class == ClassAt(new_tree, new_classes[ci])
package_name == new_tree.packages[new_classes[ci][1]].name
new_line == new_class.lines[li]
base_path == class_map[new_class.filename]
base_class == ClassAt(base_tree, base_path)

InLoop == pc = "merge" /\ fi <= Len(filenames)
AtClass == InLoop /\ ci >= 1

\* The class loop of merge() moves on: to the next class, or to the next file.
AfterClass ==
    IF ci < Len(new_classes)
    THEN fi' = fi /\ ci' = ci + 1 /\ li' = 1
    ELSE fi' = fi + 1 /\ ci' = 0 /\ li' = 1

\* The line loop of _merge_class moves on.
AfterLine ==
    IF li < Len(new_class.lines)
    THEN fi' = fi /\ ci' = ci /\ li' = li + 1
    ELSE AfterClass

\* Lines 53-55: parse the next file, merge its sources, list its classes.
ParseFile ==
    /\ InLoop /\ ci = 0
    /\ base_tree' = _merge_sources(base_tree, new_tree)
    /\ IF Len(new_classes) = 0
       THEN fi' = fi + 1 /\ ci' = 0
       ELSE fi' = fi /\ ci' = 1
    /\ UNCHANGED <<filenames, class_map, package_map, pc, li, returned>>

\* _merge_class, lines 84-98: the class is not in _class_map.
MergeClassNew ==
    /\ AtClass
    /\ new_class.filename \notin DOMAIN class_map
    /\ LET m == InsertClass([tree |-> base_tree, class_map |-> class_map,
                             package_map |-> package_map], package_name, new_class)
       IN  /\ base_tree' = m.tree
           /\ class_map' = m.class_map
           /\ package_map' = m.package_map
    /\ AfterClass
    /\ UNCHANGED <<filenames, pc, returned>>

\* _merge_class on a class of the base, when new_class has no line: the
\* line loop does not run.
MergeClassNoLines ==
    /\ AtClass
    /\ new_class.filename \in DOMAIN class_map
    /\ Len(new_class.lines) = 0
    /\ AfterClass
    /\ UNCHANGED <<filenames, base_tree, class_map, package_map, pc, returned>>

AtLine ==
    /\ AtClass
    /\ new_class.filename \in DOMAIN class_map
    /\ Len(new_class.lines) > 0

SetBaseClass(class) ==
    [base_tree EXCEPT !.packages[base_path[1]].classes[base_path[2]] = class]

\* Lines 106-111: the base class has no line of that number.
MergeLineNew ==
    /\ AtLine
    /\ LineIndex(base_class, new_line.number) = 0
    /\ base_tree' = SetBaseClass(MergeLineIntoClass(base_class, new_line))
    /\ AfterLine
    /\ UNCHANGED <<filenames, class_map, package_map, pc, returned>>

\* int() of line 114 or of line 115 raises.
SumRaises(base_line, line) ==
    IF HitsRaises(line.hits) THEN TRUE ELSE HitsRaises(base_line.hits)

\* Lines 112-138: the base class has the line.
MergeLineExisting ==
    /\ AtLine
    /\ LineIndex(base_class, new_line.number) # 0
    /\ ~SumRaises(base_class.lines[LineIndex(base_class, new_line.number)], new_line)
    /\ base_tree' = SetBaseClass(MergeLineIntoClass(base_class, new_line))
    /\ AfterLine
    /\ UNCHANGED <<filenames, class_map, package_map, pc, returned>>

\* Lines 114-115: the ValueError leaves merge(); nothing was written yet.
MergeLineRaise ==
    /\ AtLine
    /\ LineIndex(base_class, new_line.number) # 0
    /\ SumRaises(base_class.lines[LineIndex(base_class, new_line.number)], new_line)
    /\ pc' = "raised"
    /\ UNCHANGED <<filenames, base_tree, class_map, package_map, fi, ci, li, returned>>

\* Lines 58-63: every file is folded; the rates, the timestamp, the return.
Recalculate ==
    /\ pc = "merge" /\ fi > Len(filenames)
    /\ ~TreeRaises(base_tree)
    /\ \E now \in Clock :
          base_tree' = _update_timestamp(_recalculate_all_rates(base_tree), now)
    /\ returned' = Append(returned, base_tree')
    /\ pc' = "done"
    /\ UNCHANGED <<filenames, class_map, package_map, fi, ci, li>>

\* Line 186 raises ValueError in the walk of _recalculate_all_rates.
RecalculateRaise ==
    /\ pc = "merge" /\ fi > Len(filenames)
    /\ TreeRaises(base_tree)
    /\ base_tree' = RecalculateUntilRaise(base_tree)
    /\ pc' = "raised"
    /\ UNCHANGED <<filenames, class_map, package_map, fi, ci, li, returned>>

Next ==
    \/ ParseFile
    \/ MergeClassNew
    \/ MergeClassNoLines
    \/ MergeLineNew
    \/ MergeLineExisting
    \/ MergeLineRaise
    \/ Recalculate
    \/ RecalculateRaise

Spec == Init /\ [][Next]_vars

\* merge() is called again on the same merger, after it returned: the loop
\* of line 52 starts again at filenames[1:], on the base_tree, the
\* _class_map and the _package_map the earlier call left.
MergeAgain ==
    /\ pc = "done"
    /\ Len(returned) < MaxCalls
    /\ pc' = "merge"
    /\ fi' = 2
    /\ ci' = 0
    /\ li' = 1
    /\ UNCHANGED <<filenames, base_tree, class_map, package_map, returned>>

NextAgain ==
    \/ ParseFile
    \/ MergeClassNew
    \/ MergeClassNoLines
    \/ MergeLineNew
    \/ MergeLineExisting
    \/ MergeLineRaise
    \/ Recalculate
    \/ RecalculateRaise
    \/ MergeAgain

SpecAgain == Init /\ [][NextAgain]_vars

(***************************************************************************)
(* merge() as a function of the list of files: the fold of lines 52-56     *)
(* when no int() raises.                                                   *)
(***************************************************************************)
RECURSIVE MergeLines(_, _, _)
MergeLines(class, lines, k) ==
    IF k > Len(lines) THEN class
    ELSE MergeLines(MergeLineIntoClass(class, lines[k]), lines, k + 1)

_merge_class(m, name, class) ==
    IF class.filename \notin DOMAIN m.class_map
    THEN InsertClass(m, name, class)
    ELSE LET path == m.class_map[class.filename]
         IN  [m EXCEPT !.tree.packages[path[1]].classes[path[2]] =
                            MergeLines(@, class.lines, 1)]

RECURSIVE MergeClasses(_, _, _)
MergeClasses(m, tree, k) ==
    IF k > Len(FlatClasses(tree)) THEN m
    ELSE LET path == FlatClasses(tree)[k]
         IN  MergeClasses(_merge_class(m, tree.packages[path[1]].name, ClassAt(tree, path)),
                          tree, k + 1)

RECURSIVE MergeFiles(_, _, _)
MergeFiles(m, files, k) ==
    IF k > Len(files) THEN m
    ELSE MergeFiles(MergeClasses([m EXCEPT !.tree = _merge_sources(@, files[k])],
                                 files[k], 1),
                    files, k + 1)

merge(files) ==
    MergeFiles([tree |-> files[1], class_map |-> BuildClassMap(files[1]),
                package_map |-> BuildPackageMap(files[1])], files, 2).tree

(***************************************************************************)
(* Properties                                                              *)
(***************************************************************************)
\* The lines of a tree, each as <<package index, class index, line index>>.
Positions(tree) ==
    UNION { UNION { { <<p, c, k>> : k \in 1..Len(tree.packages[p].classes[c].lines) } :
                    c \in 1..Len(tree.packages[p].classes) } :
            p \in 1..Len(tree.packages) }

LineAt(tree, pos) == tree.packages[pos[1]].classes[pos[2]].lines[pos[3]]
FilenameAt(tree, pos) == tree.packages[pos[1]].classes[pos[2]].filename

\* <<class filename, line number>> of every line of a tree.
Keys(tree) == { <<FilenameAt(tree, pos), LineAt(tree, pos).number>> : pos \in Positions(tree) }

LinesFor(tree, key) ==
    { pos \in Positions(tree) :
        FilenameAt(tree, pos) = key[1] /\ LineAt(tree, pos).number = key[2] }

\* The hits a tree carries for a line: 0 when it has no such line.
HitsFor(tree, key) ==
    IF LinesFor(tree, key) = {} THEN 0
    ELSE HitsInt(LineAt(tree, CHOOSE pos \in LinesFor(tree, key) : TRUE).hits)

RECURSIVE SumOfInputs(_, _)
SumOfInputs(key, k) ==
    IF k = 0 THEN 0 ELSE SumOfInputs(key, k - 1) + HitsFor(filenames[k], key)

InputKeys == UNION { Keys(filenames[i]) : i \in 1..Len(filenames) }

\* C1: in the report merge() returns, every line some input has is there
\* once, no other line is, and its hits are the sum of the hits the line
\* has in the inputs that contain it.
C1_HitsAreSummed ==
    pc = "done" =>
        /\ Keys(base_tree) = InputKeys
        /\ \A key \in InputKeys :
              /\ Cardinality(LinesFor(base_tree, key)) = 1
              /\ HitsFor(base_tree, key) = SumOfInputs(key, Len(filenames))

\* Three inputs that all hit one line, and another line that only some of
\* them have.
C1_Witness ==
    /\ pc = "done"
    /\ Len(filenames) = 3
    /\ \E key \in InputKeys :
          /\ \A i \in 1..3 : HitsFor(filenames[i], key) > 0
          /\ HitsFor(base_tree, key) >= 3
    /\ \E key \in InputKeys, i \in 1..3 :
          /\ LinesFor(filenames[i], key) = {}
          /\ HitsFor(base_tree, key) > 0

\* The step is an iteration of the line loop on a line the base class has,
\* and it does not raise.
SumStep ==
    /\ AtLine
    /\ LineIndex(base_class, new_line.number) # 0
    /\ pc' = "merge"

base_line == base_class.lines[LineIndex(base_class, new_line.number)]
base_line_after ==
    ClassAt(base_tree', base_path).lines[LineIndex(base_class, new_line.number)]

\* C2: a line-merge step on an existing base line with an incoming branch
\* line: a strictly greater incoming percentage puts the incoming
\* condition-coverage and conditions on the base line, an equal or lower
\* one leaves the base's as they were.
C2_OptimisticBranchMerge ==
    [][ (SumStep /\ new_line.branch) =>
            IF _get_coverage_percentage(new_line.cc) > _get_coverage_percentage(base_line.cc)
            THEN /\ base_line_after.cc = new_line.cc
                 /\ base_line_after.conditions = new_line.conditions
            ELSE /\ base_line_after.cc = base_line.cc
                 /\ base_line_after.conditions = base_line.conditions ]_vars

\* 25% in the base, then 50% (2/4) replaces it, then 50% (1/2) ties and is
\* dropped.
C2_Witness ==
    /\ pc = "done"
    /\ Len(filenames) = 3
    /\ \E key \in InputKeys :
          /\ \A i \in 1..3 : LinesFor(filenames[i], key) # {}
          /\ LET in(i) == LineAt(filenames[i], CHOOSE pos \in LinesFor(filenames[i], key) : TRUE)
                 out == LineAt(base_tree, CHOOSE pos \in LinesFor(base_tree, key) : TRUE)
             IN  /\ in(1).cc = Some(Cc25) /\ in(2).cc = Some(Cc50b) /\ in(3).cc = Some(Cc50)
                 /\ in(2).branch /\ in(3).branch
                 /\ out.cc = in(2).cc /\ out.conditions = in(2).conditions

\* The count of the lines of a set of positions that are hit, and the sums
\* of the fractions of its branch lines.
Covered(tree, S) == Cardinality({ pos \in S : HitsInt(LineAt(tree, pos).hits) > 0 })

RECURSIVE SumFractions(_, _, _)
SumFractions(tree, S, j) ==
    IF S = {} THEN 0
    ELSE LET pos == CHOOSE x \in S : TRUE
             line == LineAt(tree, pos)
         IN  (IF line.branch THEN _parse_condition_coverage(line.cc)[j] ELSE 0)
                + SumFractions(tree, S \ {pos}, j)

\* The attribute is the quotient num / den, or 0 when den is 0.
IsQuotient(attr, num, den) ==
    /\ ~IsNone(attr)
    /\ Val(attr)[2] > 0
    /\ IF den > 0 THEN Val(attr)[1] * den = num * Val(attr)[2] ELSE Val(attr)[1] = 0

RatesOf(el, tree, S) ==
    /\ IsQuotient(el.line_rate, Covered(tree, S), Cardinality(S))
    /\ IsQuotient(el.branch_rate, SumFractions(tree, S, 1), SumFractions(tree, S, 2))

\* C3: after merge() the rates of every class, every package and the report
\* are the quotients of the counts over the lines of its subtree.
C3_RatesAreWeightedQuotients ==
    pc = "done" =>
        /\ RatesOf(base_tree, base_tree, Positions(base_tree))
        /\ \A p \in 1..Len(base_tree.packages) :
              /\ RatesOf(base_tree.packages[p], base_tree,
                         { pos \in Positions(base_tree) : pos[1] = p })
              /\ \A c \in 1..Len(base_tree.packages[p].classes) :
                    RatesOf(base_tree.packages[p].classes[c], base_tree,
                            { pos \in Positions(base_tree) : pos[1] = p /\ pos[2] = c })

\* A package of two classes with different line counts and different rates:
\* the mean of the class rates is not the package's rate.
C3_Witness ==
    /\ pc = "done"
    /\ \E p \in 1..Len(base_tree.packages) :
          LET cs == base_tree.packages[p].classes
          IN  /\ Len(cs) = 2
              /\ Len(cs[1].lines) # Len(cs[2].lines)
              /\ cs[1].line_rate # cs[2].line_rate
              /\ cs[1].branch_rate # cs[2].branch_rate
              /\ base_tree.packages[p].line_rate # Stale
              /\ base_tree.line_rate # Stale

\* C4: at every step of the fold, no two classes of the accumulator have
\* the same filename.
C4_FilenamesAreUnique ==
    \A a, b \in { FlatClasses(base_tree)[k] : k \in 1..Len(FlatClasses(base_tree)) } :
        ClassAt(base_tree, a).filename = ClassAt(base_tree, b).filename => a = b

\* A folded input had, under a package of another name, a class the
\* accumulator holds, with a line the base did not have.
C4_Witness ==
    /\ pc = "done"
    /\ \E i \in 2..Len(filenames) :
          \E pos \in Positions(filenames[i]), bpos \in Positions(base_tree) :
              /\ FilenameAt(filenames[i], pos) = FilenameAt(base_tree, bpos)
              /\ filenames[i].packages[pos[1]].name # base_tree.packages[bpos[1]].name
              /\ LineAt(filenames[i], pos).number = LineAt(base_tree, bpos).number
              /\ LinesFor(filenames[1], <<FilenameAt(base_tree, bpos),
                                          LineAt(base_tree, bpos).number>>) = {}
              /\ FilenameAt(base_tree, bpos) \in
                    { FilenameAt(filenames[1], q) : q \in Positions(filenames[1]) }

PackageNames(tree) == { tree.packages[p].name : p \in 1..Len(tree.packages) }

\* C5: every package name of every input is the name of exactly one
\* package of the merged report.
C5_EveryPackageIsKept ==
    pc = "done" =>
        \A i \in 1..Len(filenames) : \A n \in PackageNames(filenames[i]) :
            Cardinality({ p \in 1..Len(base_tree.packages) :
                            base_tree.packages[p].name = n }) = 1

SourcesOf(tree) == IF IsNone(tree.sources) THEN <<>> ELSE Val(tree.sources)

\* The source text occurs in files[i] and in no earlier file.
FirstSeenIn(text, i) ==
    /\ InSeq(text, SourcesOf(filenames[i]))
    /\ \A j \in 1..(i - 1) : ~InSeq(text, SourcesOf(filenames[j]))

IndexIn(text, s) == CHOOSE k \in 1..Len(s) : s[k] = text

\* text a is first seen before text b in the sequence of the inputs.
SeenBefore(a, b) ==
    \E i, j \in 1..Len(filenames) :
        /\ FirstSeenIn(a, i) /\ FirstSeenIn(b, j)
        /\ i <= j
        /\ i = j => IndexIn(a, SourcesOf(filenames[i])) < IndexIn(b, SourcesOf(filenames[i]))

\* C6: the sources of the merged report are the source texts of all the
\* inputs, each once, in the order of their first occurrence.
C6_SourcesAreTheOrderedUnion ==
    pc = "done" =>
        LET merged == SourcesOf(base_tree)
        IN  /\ { merged[k] : k \in 1..Len(merged) } =
                  UNION { { SourcesOf(filenames[i])[k] : k \in 1..Len(SourcesOf(filenames[i])) } :
                          i \in 1..Len(filenames) }
            /\ \A j, k \in 1..Len(merged) : j < k =>
                  /\ merged[j] # merged[k]
                  /\ SeenBefore(merged[j], merged[k])

\* The base has no sources container, two later inputs share a text, and
\* the last input brings a new text after one it repeats.
C6_Witness ==
    /\ pc = "done"
    /\ Len(filenames) = 3
    /\ IsNone(filenames[1].sources)
    /\ Len(SourcesOf(base_tree)) = 3
    /\ Len(SourcesOf(filenames[2])) = 2
    /\ Len(SourcesOf(filenames[3])) = 2
    /\ InSeq(SourcesOf(filenames[3])[1], SourcesOf(filenames[2]))

\* int() of a hits attribute with ValueError read as 0.
LenientHits(o) == IF IsNone(o) \/ IntRaises(Val(o)) THEN 0 ELSE DecValue(Val(o))

LenientHitsFor(tree, key) ==
    IF LinesFor(tree, key) = {} THEN 0
    ELSE LenientHits(LineAt(tree, CHOOSE pos \in LinesFor(tree, key) : TRUE).hits)

RECURSIVE LenientSumOfInputs(_, _)
LenientSumOfInputs(key, k) ==
    IF k = 0 THEN 0
    ELSE LenientSumOfInputs(key, k - 1) + LenientHitsFor(filenames[k], key)

\* C7: merge() does not raise on a line whose hits is missing or is no
\* integer, and the value counts as 0 in the sum and in the covered lines.
C7_BadHitsCountAsZero ==
    /\ pc # "raised"
    /\ pc = "done" =>
          /\ \A key \in InputKeys :
                LenientHitsFor(base_tree, key) = LenientSumOfInputs(key, Len(filenames))
          /\ IsQuotient(base_tree.line_rate,
                        Cardinality({ pos \in Positions(base_tree) :
                                        LenientHits(LineAt(base_tree, pos).hits) > 0 }),
                        Cardinality(Positions(base_tree)))

\* The text has the shape "P% (covered/total)" with P, covered and total
\* non-empty texts of digits.
WellShaped(s) ==
    LET a == DigitsEnd(s, 1)
        b == DigitsEnd(s, a + 3)
        d == DigitsEnd(s, b + 1)
    IN  /\ a > 1 /\ a + 2 <= Len(s)
        /\ s[a] = "%" /\ s[a + 1] = " " /\ s[a + 2] = "("
        /\ b > a + 3 /\ b <= Len(s) /\ s[b] = "/"
        /\ d > b + 1 /\ d = Len(s) /\ s[d] = ")"

CcTexts ==
    UNION { { Val(LineAt(filenames[i], pos).cc) :
                pos \in { q \in Positions(filenames[i]) : ~IsNone(LineAt(filenames[i], q).cc) } } :
            i \in 1..Len(filenames) }

InUnitInterval(attr) ==
    /\ ~IsNone(attr)
    /\ Val(attr)[2] > 0
    /\ 0 <= Val(attr)[1]
    /\ Val(attr)[1] <= Val(attr)[2]

RatesInUnitInterval ==
    /\ InUnitInterval(base_tree.line_rate)
    /\ InUnitInterval(base_tree.branch_rate)
    /\ \A p \in 1..Len(base_tree.packages) :
          /\ InUnitInterval(base_tree.packages[p].line_rate)
          /\ InUnitInterval(base_tree.packages[p].branch_rate)
          /\ \A c \in 1..Len(base_tree.packages[p].classes) :
                /\ InUnitInterval(base_tree.packages[p].classes[c].line_rate)
                /\ InUnitInterval(base_tree.packages[p].classes[c].branch_rate)

\* C8 as stated: every rate of the merged report is in [0,1] when every
\* condition-coverage text of the inputs has the shape "P% (covered/total)".
C8_RatesInUnitInterval_AsStated ==
    (pc = "done" /\ \A s \in CcTexts : WellShaped(s)) => RatesInUnitInterval

\* C8, amended: every rate of the merged report is in [0,1] when every
\* condition-coverage text of the inputs has the shape "P% (covered/total)"
\* with covered <= total.
C8_RatesInUnitInterval ==
    (/\ pc = "done"
     /\ \A s \in CcTexts :
           /\ WellShaped(s)
           /\ _parse_condition_coverage(Some(s))[1] <= _parse_condition_coverage(Some(s))[2])
        => RatesInUnitInterval

\* Two inputs of well-shaped texts with covered <= total, merged into a
\* report whose branch-rate is strictly between 0 and 1.
C8_Witness ==
    /\ pc = "done"
    /\ Len(filenames) >= 2
    /\ Cardinality(CcTexts) >= 2
    /\ \A s \in CcTexts :
          /\ WellShaped(s)
          /\ _parse_condition_coverage(Some(s))[1] <= _parse_condition_coverage(Some(s))[2]
    /\ 0 < Val(base_tree.branch_rate)[1]
    /\ Val(base_tree.branch_rate)[1] < Val(base_tree.branch_rate)[2]
    /\ Val(base_tree.line_rate)[1] < Val(base_tree.line_rate)[2]

\* The orders in which the inputs can be listed.
Orders(n) ==
    { f \in [1..n -> 1..n] : \A i, j \in 1..n : f[i] = f[j] => i = j }

\* For every line of a tree: its class filename, its number, its hits and
\* the percentage of its condition-coverage.
Outcome(tree) ==
    { <<FilenameAt(tree, pos), LineAt(tree, pos).number,
        HitsInt(LineAt(tree, pos).hits),
        _get_coverage_percentage(LineAt(tree, pos).cc)>> : pos \in Positions(tree) }

Reordered(f) == [i \in 1..Len(filenames) |-> filenames[f[i]]]

\* C9: the hits and the condition-coverage percentage of every line of the
\* merged report are those of the merge of the same inputs in any other
\* order.
C9_OrderIndependentOutcome ==
    pc = "done" =>
        \A f \in Orders(Len(filenames)) :
            Outcome(merge(Reordered(f))) = Outcome(base_tree)

\* Three inputs with one line in common, hit by all, where another order
\* leaves another Conditions group on the line.
C9_Witness ==
    /\ pc = "done"
    /\ Len(filenames) = 3
    /\ \E key \in InputKeys :
          /\ \A i \in 1..3 : HitsFor(filenames[i], key) > 0
          /\ \E f \in Orders(3) :
                LET other == merge(Reordered(f))
                IN  LineAt(other, CHOOSE pos \in LinesFor(other, key) : TRUE).conditions
                      # LineAt(base_tree, CHOOSE pos \in LinesFor(base_tree, key) : TRUE).conditions

\* C10: a line of the accumulator that has branch = true has it after
\* every step, and a line-merge step with an incoming branch line leaves
\* the base line with branch = true.
C10_BranchIsSticky ==
    [][ /\ \A pos \in Positions(base_tree) :
              LineAt(base_tree, pos).branch =>
                  /\ pos \in Positions(base_tree')
                  /\ LineAt(base_tree', pos).branch
        /\ (SumStep /\ new_line.branch) => base_line_after.branch ]_vars

\* A line that is no branch line in the base, is promoted by the second
\* input and is still a branch line after a third input without branch.
C10_Witness ==
    /\ pc = "done"
    /\ Len(filenames) = 3
    /\ \E key \in InputKeys :
          /\ \A i \in 1..3 : LinesFor(filenames[i], key) # {}
          /\ ~LineAt(filenames[1], CHOOSE pos \in LinesFor(filenames[1], key) : TRUE).branch
          /\ LineAt(filenames[2], CHOOSE pos \in LinesFor(filenames[2], key) : TRUE).branch
          /\ ~LineAt(filenames[3], CHOOSE pos \in LinesFor(filenames[3], key) : TRUE).branch
          /\ LineAt(base_tree, CHOOSE pos \in LinesFor(base_tree, key) : TRUE).branch

\* For every line of a tree: its class filename, its number and its hits.
HitsOutcome(tree) ==
    { <<FilenameAt(tree, pos), LineAt(tree, pos).number, HitsInt(LineAt(tree, pos).hits)>> :
        pos \in Positions(tree) }

\* The classes of a tree: the name of the package and the filename of each.
ClassesOutcome(tree) ==
    [k \in 1..Len(FlatClasses(tree)) |->
        <<tree.packages[FlatClasses(tree)[k][1]].name,
          ClassAt(tree, FlatClasses(tree)[k]).filename>>]

\* C11: the report a second call of merge() on the same merger returns has
\* the line hits, the classes and the sources of the report the first call
\* returned.
C11_SecondMergeReturnsTheSame ==
    Len(returned) >= 2 =>
        /\ HitsOutcome(returned[2]) = HitsOutcome(returned[1])
        /\ ClassesOutcome(returned[2]) = ClassesOutcome(returned[1])
        /\ SourcesOf(returned[2]) = SourcesOf(returned[1])

====
